---------------------------- MODULE Spec2Model ----------------------------
(***************************************************************************)
(* Quality-control inspection of chocolates (src/TB1.py).                  *)
(*                                                                         *)
(* The model covers the classes Chocolate, ChocolateMoldeado,              *)
(* ChocolateEmpaque, SensorCalidad / SensorVisual and                      *)
(* SistemaControlCalidad.  The interactive menu (main, mostrar_menu,       *)
(* obtener_opcion, simular_produccion_lote) only calls the operations      *)
(* modelled here.  Wall-clock data (fecha_produccion, the 'fecha' of a     *)
(* record) and the free-text attributes tipo_molde / tipo_empaque are read *)
(* by no decision of the program and are left out of the state.            *)
(*                                                                         *)
(* The model follows one Chocolate object, of any of the three classes,    *)
(* through one SistemaControlCalidad.  Every call is one atomic step (the  *)
(* program is single-threaded); `ultimo` records the call just made, its   *)
(* arguments and what it returned or raised.                               *)
(***************************************************************************)
EXTENDS Naturals, Sequences, FiniteSets

VARIABLES
    chocolate,    \* the Chocolate object: lote_id, class, _defectos, _estado_calidad
    sensores,     \* SistemaControlCalidad._sensores : proceso -> sensor
    resultados,   \* SistemaControlCalidad._resultados : the inspection log
    ultimo,       \* the last call made and what it returned or raised
    exitos        \* history: number of inspeccionar_chocolate calls that returned

vars == <<chocolate, sensores, resultados, ultimo, exitos>>

---------------------------------------------------------------------------
(* Bounds of the model *)

\* inspections whose sensor returns are made while the log holds fewer than
\* MaxLog records
MaxLog == 2

\* direct agregar_defecto calls are made while they leave at most MaxDirectos
\* defects on the chocolate (inspections add theirs beyond that)
MaxDirectos == 1

---------------------------------------------------------------------------
(* Vocabulary: TipoDefecto and EstadoCalidad *)

TipoDefecto ==
    {"BURBUJAS", "ROTURA", "FORMA_INCORRECTA", "MANCHAS", "FALTANTE", "EMPAQUE_DANADO"}

\* TipoDefecto.<member>.value
ValorDefecto(d) ==
    CASE d = "BURBUJAS"         -> "burbujas_aire"
      [] d = "ROTURA"           -> "rotura"
      [] d = "FORMA_INCORRECTA" -> "forma_incorrecta"
      [] d = "MANCHAS"          -> "manchas"
      [] d = "FALTANTE"         -> "pieza_faltante"
      [] d = "EMPAQUE_DANADO"   -> "empaque_danado"

EstadoCalidad == {"APROBADO", "RECHAZADO", "PENDIENTE"}

\* EstadoCalidad.<member>.value
ValorEstado(e) ==
    CASE e = "APROBADO"  -> "aprobado"
      [] e = "RECHAZADO" -> "rechazado"
      [] e = "PENDIENTE" -> "pendiente"

Clases == {"Chocolate", "ChocolateMoldeado", "ChocolateEmpaque"}

Lote == "LOTE-1"

\* process names handed to registrar_sensor.  A process name is only a key of
\* _sensores and a field of the record (SensorVisual dispatches on the class of
\* the chocolate), so one registered name shows every behaviour
Procesos == {"moldeado"}

\* process names handed to inspeccionar_chocolate; "empaque" is never registered
ProcesosPedidos == Procesos \cup {"empaque"}

\* SensorVisual is the concrete sensor of the source; SensorFalla stands for an
\* implementation of the abstract SensorCalidad whose detectar_defectos raises
Sensores == {"SensorVisual", "SensorFalla"}

\* what one call of detectar_defectos yields: a list of defects, or an exception
Devuelve(defectos) == [lanza |-> FALSE, defectos |-> defectos]

Lanza == [lanza |-> TRUE, defectos |-> <<>>]

Rango(s) == {s[k] : k \in 1..Len(s)}

SeqHasta(S, n) == UNION {[1..k -> S] : k \in 0..n}

---------------------------------------------------------------------------
(* Chocolate and its subclasses *)

\* Chocolate.__init__ (also reached through super().__init__)
Chocolate_init(lote, clase) ==
    [lote_id |-> lote, clase |-> clase, defectos |-> <<>>, estado |-> "PENDIENTE"]

\* agregar_defecto without the membership test
agregar_defecto_sin_comprobar(choc, d) ==
    [choc EXCEPT !.defectos = Append(@, d)]

\* agregar_defecto that assigns the list instead of appending to it
agregar_defecto_reemplaza(choc, d) ==
    IF d \notin Rango(choc.defectos)
    THEN [choc EXCEPT !.defectos = <<d>>]
    ELSE choc

\* Chocolate.agregar_defecto
agregar_defecto(choc, d) ==
    IF d \notin Rango(choc.defectos)
    THEN [choc EXCEPT !.defectos = Append(@, d)]
    ELSE choc

\* evaluar_calidad that leaves a chocolate without defects as it was
Chocolate_evaluar_calidad_sin_aprobar(choc) ==
    IF choc.defectos = <<>>
    THEN choc
    ELSE [choc EXCEPT !.estado = "RECHAZADO"]

\* Chocolate.evaluar_calidad
Chocolate_evaluar_calidad(choc) ==
    IF choc.defectos = <<>>
    THEN [choc EXCEPT !.estado = "APROBADO"]
    ELSE [choc EXCEPT !.estado = "RECHAZADO"]

\* the moulding criteria with FORMA_INCORRECTA forgotten
ChocolateMoldeado_evaluar_calidad_sin_forma(choc) ==
    IF \/ "BURBUJAS" \in Rango(choc.defectos)
       \/ "ROTURA" \in Rango(choc.defectos)
    THEN [choc EXCEPT !.estado = "RECHAZADO"]
    ELSE [choc EXCEPT !.estado = "APROBADO"]

\* ChocolateMoldeado.evaluar_calidad
ChocolateMoldeado_evaluar_calidad(choc) ==
    IF \/ "BURBUJAS" \in Rango(choc.defectos)
       \/ "ROTURA" \in Rango(choc.defectos)
       \/ "FORMA_INCORRECTA" \in Rango(choc.defectos)
    THEN [choc EXCEPT !.estado = "RECHAZADO"]
    ELSE [choc EXCEPT !.estado = "APROBADO"]

\* ChocolateEmpaque.evaluar_calidad
ChocolateEmpaque_evaluar_calidad(choc) ==
    IF \/ "ROTURA" \in Rango(choc.defectos)
       \/ "EMPAQUE_DANADO" \in Rango(choc.defectos)
       \/ "FALTANTE" \in Rango(choc.defectos)
    THEN [choc EXCEPT !.estado = "RECHAZADO"]
    ELSE [choc EXCEPT !.estado = "APROBADO"]

\* evaluar_calidad without the overrides of the subclasses
evaluar_calidad_sin_polimorfismo(choc) == Chocolate_evaluar_calidad(choc)

\* chocolate.evaluar_calidad(): dispatch on the object's class
evaluar_calidad(choc) ==
    CASE choc.clase = "ChocolateMoldeado" -> ChocolateMoldeado_evaluar_calidad(choc)
      [] choc.clase = "ChocolateEmpaque"  -> ChocolateEmpaque_evaluar_calidad(choc)
      [] OTHER                            -> Chocolate_evaluar_calidad(choc)

---------------------------------------------------------------------------
(* Sensors *)

\* SensorVisual._analizar_moldeado: random.choices(4 kinds, k = randint(0, 2))
analizar_moldeado ==
    SeqHasta({"BURBUJAS", "ROTURA", "FORMA_INCORRECTA", "MANCHAS"}, 2)

\* SensorVisual._analizar_empaque: random.choices(3 kinds, k = randint(0, 1))
analizar_empaque ==
    SeqHasta({"ROTURA", "EMPAQUE_DANADO", "FALTANTE"}, 1)

\* SensorVisual.detectar_defectos: the lists one call may return
SensorVisual_detectar_defectos(choc) ==
    CASE choc.clase = "ChocolateMoldeado" -> {Devuelve(l) : l \in analizar_moldeado}
      [] choc.clase = "ChocolateEmpaque"  -> {Devuelve(l) : l \in analizar_empaque}
      [] OTHER                            -> {Devuelve(<<>>)}

\* sensor.detectar_defectos(chocolate): the outcomes of one call
detectar_defectos(sensor, choc) ==
    IF sensor = "SensorVisual" THEN SensorVisual_detectar_defectos(choc) ELSE {Lanza}

---------------------------------------------------------------------------
(* SistemaControlCalidad *)

\* the loop "for defecto in defectos: chocolate.agregar_defecto(defecto)"
RECURSIVE agregar_detectados(_, _)
agregar_detectados(choc, defectos) ==
    IF defectos = <<>> THEN choc
    ELSE agregar_detectados(agregar_defecto(choc, Head(defectos)), Tail(defectos))

\* _registrar_resultado that puts the record at the head of the list
registrar_resultado_al_inicio(regs, choc, defectos, resultado, proceso) ==
    <<[lote_id        |-> choc.lote_id,
       proceso        |-> proceso,
       defectos       |-> [k \in 1..Len(defectos) |-> ValorDefecto(defectos[k])],
       resultado      |-> ValorEstado(resultado),
       tipo_chocolate |-> choc.clase]>> \o regs

\* SistemaControlCalidad._registrar_resultado
registrar_resultado(regs, choc, defectos, resultado, proceso) ==
    Append(regs,
           [lote_id        |-> choc.lote_id,
            proceso        |-> proceso,
            defectos       |-> [k \in 1..Len(defectos) |-> ValorDefecto(defectos[k])],
            resultado      |-> ValorEstado(resultado),
            tipo_chocolate |-> choc.clase])

\* SistemaControlCalidad.registrar_sensor: self._sensores[proceso] = sensor
registrar_sensor(sens, proceso, sensor) ==
    [q \in (DOMAIN sens) \cup {proceso} |-> IF q = proceso THEN sensor ELSE sens[q]]

\* inspeccionar_chocolate that goes on without a sensor when none is registered
inspeccionar_chocolate_sin_sensor(sens, regs, choc, proceso, det) ==
    IF proceso \in DOMAIN sens /\ det.lanza
    THEN [ret |-> "SensorError", choc |-> choc, regs |-> regs, detecto |-> TRUE]
    ELSE LET conDefectos == agregar_detectados(choc, det.defectos)
             evaluado    == evaluar_calidad(conDefectos)
         IN  [ret     |-> evaluado.estado,
              choc    |-> evaluado,
              regs    |-> registrar_resultado(regs, evaluado, det.defectos,
                                             evaluado.estado, proceso),
              detecto |-> proceso \in DOMAIN sens]

\* inspeccionar_chocolate that logs the defects of the chocolate instead of
\* the defects detected in the call
inspeccionar_chocolate_registra_acumulados(sens, regs, choc, proceso, det) ==
    IF proceso \notin DOMAIN sens
    THEN [ret |-> "ValueError", choc |-> choc, regs |-> regs, detecto |-> FALSE]
    ELSE IF det.lanza
    THEN [ret |-> "SensorError", choc |-> choc, regs |-> regs, detecto |-> TRUE]
    ELSE LET conDefectos == agregar_detectados(choc, det.defectos)
             evaluado    == evaluar_calidad(conDefectos)
         IN  [ret     |-> evaluado.estado,
              choc    |-> evaluado,
              regs    |-> registrar_resultado(regs, evaluado, evaluado.defectos,
                                             evaluado.estado, proceso),
              detecto |-> TRUE]

\* inspeccionar_chocolate that catches the exception of the sensor and goes on
\* with no defects
inspeccionar_chocolate_traga_error(sens, regs, choc, proceso, det) ==
    IF proceso \notin DOMAIN sens
    THEN [ret |-> "ValueError", choc |-> choc, regs |-> regs, detecto |-> FALSE]
    ELSE LET conDefectos == agregar_detectados(choc, det.defectos)
             evaluado    == evaluar_calidad(conDefectos)
         IN  [ret     |-> evaluado.estado,
              choc    |-> evaluado,
              regs    |-> registrar_resultado(regs, evaluado, det.defectos,
                                             evaluado.estado, proceso),
              detecto |-> TRUE]

\* SistemaControlCalidad.inspeccionar_chocolate, given what the sensor call
\* yields when it is made (det).  ret is the value returned or the exception
\* raised; detecto tells whether detectar_defectos was called.
inspeccionar_chocolate(sens, regs, choc, proceso, det) ==
    IF proceso \notin DOMAIN sens
    THEN [ret |-> "ValueError", choc |-> choc, regs |-> regs, detecto |-> FALSE]
    ELSE IF det.lanza
    THEN [ret |-> "SensorError", choc |-> choc, regs |-> regs, detecto |-> TRUE]
    ELSE LET conDefectos == agregar_detectados(choc, det.defectos)
             evaluado    == evaluar_calidad(conDefectos)
         IN  [ret     |-> evaluado.estado,
              choc    |-> evaluado,
              regs    |-> registrar_resultado(regs, evaluado, det.defectos,
                                             evaluado.estado, proceso),
              detecto |-> TRUE]

\* generar_reporte: sum(1 for r in self._resultados if r['resultado'] == 'aprobado')
RECURSIVE contar_aprobados(_)
contar_aprobados(regs) ==
    IF regs = <<>> THEN 0
    ELSE (IF Head(regs).resultado = ValorEstado("APROBADO") THEN 1 ELSE 0)
         + contar_aprobados(Tail(regs))

\* the tally that stores 1 for a key instead of adding 1 to its count
contar_defecto_sin_acumular(contador, defecto) ==
    IF \E k \in 1..Len(contador) : contador[k].defecto = defecto
    THEN contador
    ELSE Append(contador, [defecto |-> defecto, count |-> 1])

\* generar_reporte: contador_defectos[defecto] = contador_defectos.get(defecto, 0) + 1
\* (the dict keeps its keys in insertion order: a sequence of key/count pairs)
contar_defecto(contador, defecto) ==
    IF \E k \in 1..Len(contador) : contador[k].defecto = defecto
    THEN [k \in 1..Len(contador) |->
             IF contador[k].defecto = defecto
             THEN [contador[k] EXCEPT !.count = @ + 1]
             ELSE contador[k]]
    ELSE Append(contador, [defecto |-> defecto, count |-> 1])

\* generar_reporte: the inner loop "for defecto in resultado['defectos']"
RECURSIVE contar_defectos_de_registro(_, _)
contar_defectos_de_registro(contador, defectos) ==
    IF defectos = <<>> THEN contador
    ELSE contar_defectos_de_registro(contar_defecto(contador, Head(defectos)), Tail(defectos))

\* generar_reporte: the outer loop "for resultado in self._resultados"
RECURSIVE contador_defectos(_, _)
contador_defectos(contador, regs) ==
    IF regs = <<>> THEN contador
    ELSE contador_defectos(contar_defectos_de_registro(contador, Head(regs).defectos), Tail(regs))

\* generar_reporte: f"{aprobados / total * 100:.2f}", in hundredths of a percent
tasa_aprobacion(aprobados, total) ==
    IF total > 0 THEN (2 * 10000 * aprobados + total) \div (2 * total) ELSE 0

\* SistemaControlCalidad.generar_reporte: the figures the text is built from
\* (texts are written without accents)
generar_reporte(regs) ==
    IF regs = <<>>
    THEN [datos |-> FALSE, texto |-> "No hay datos de inspeccion para generar reporte."]
    ELSE LET total     == Len(regs)
             aprobados == contar_aprobados(regs)
             contador  == contador_defectos(<<>>, regs)
         IN  [datos      |-> TRUE,
              total      |-> total,
              aprobados  |-> aprobados,
              rechazados |-> total - aprobados,
              tasa       |-> tasa_aprobacion(aprobados, total),
              detalle    |-> contador,
              sinDefectos |-> (contador = <<>>)]

\* SistemaControlCalidad.mostrar_inspecciones: one numbered entry per record;
\* the 'Defectos' line is present only for a non-empty list
mostrar_inspecciones(regs) ==
    IF regs = <<>>
    THEN [datos |-> FALSE, texto |-> "No hay inspecciones registradas."]
    ELSE [datos    |-> TRUE,
          entradas |-> [i \in 1..Len(regs) |->
                           [num       |-> i,
                            lote      |-> regs[i].lote_id,
                            proceso   |-> regs[i].proceso,
                            resultado |-> regs[i].resultado,
                            defectos  |-> IF regs[i].defectos # <<>>
                                          THEN <<regs[i].defectos>> ELSE <<>>]]]

---------------------------------------------------------------------------
Init ==
    /\ chocolate \in {Chocolate_init(Lote, clase) : clase \in Clases}
    /\ sensores = [q \in {} |-> "SensorVisual"]
    /\ resultados = <<>>
    /\ ultimo = [op |-> "init"]
    /\ exitos = 0

\* sistema.registrar_sensor(proceso, sensor)
LlamarRegistrarSensor(proceso, sensor) ==
    /\ sensores' = registrar_sensor(sensores, proceso, sensor)
    /\ ultimo' = [op |-> "registrar_sensor", proceso |-> proceso, sensor |-> sensor]
    /\ UNCHANGED <<chocolate, resultados, exitos>>

\* chocolate.agregar_defecto(d), called directly on any chocolate
AgregarDirecto(d) ==
    /\ chocolate' = agregar_defecto(chocolate, d)
    /\ ultimo' = [op |-> "agregar_defecto", defecto |-> d]
    /\ UNCHANGED <<sensores, resultados, exitos>>

\* chocolate.agregar_defecto(d), called directly within the bound
LlamarAgregarDefecto(d) ==
    /\ Len(agregar_defecto(chocolate, d).defectos) <= MaxDirectos
    /\ AgregarDirecto(d)

\* chocolate.evaluar_calidad(), called directly
LlamarEvaluarCalidad ==
    /\ chocolate' = evaluar_calidad(chocolate)
    /\ ultimo' = [op |-> "evaluar_calidad", ret |-> chocolate'.estado]
    /\ UNCHANGED <<sensores, resultados, exitos>>

\* sistema.inspeccionar_chocolate(chocolate, proceso); det is what the call of
\* detectar_defectos yields when the call reaches it.  The bound stops the
\* calls whose sensor returns (the ones that append a record) at a full log.
LlamarInspeccion(proceso) ==
    \E det \in (IF proceso \in DOMAIN sensores
                THEN detectar_defectos(sensores[proceso], chocolate)
                ELSE {Devuelve(<<>>)}) :
       /\ \/ Len(resultados) < MaxLog
          \/ proceso \notin DOMAIN sensores
          \/ det.lanza
       /\ \E r \in {inspeccionar_chocolate(sensores, resultados, chocolate, proceso, det)} :
             /\ chocolate' = r.choc
             /\ resultados' = r.regs
             /\ ultimo' = [op         |-> "inspeccionar_chocolate",
                           proceso    |-> proceso,
                           ret        |-> r.ret,
                           detecto    |-> r.detecto,
                           detectados |-> IF r.detecto THEN det ELSE Devuelve(<<>>)]
             /\ exitos' = IF r.ret \in EstadoCalidad THEN exitos + 1 ELSE exitos
       /\ UNCHANGED sensores

\* sistema.generar_reporte()
LlamarGenerarReporte ==
    /\ ultimo' = [op |-> "generar_reporte", salida |-> generar_reporte(resultados)]
    /\ UNCHANGED <<chocolate, sensores, resultados, exitos>>

\* sistema.mostrar_inspecciones()
LlamarMostrarInspecciones ==
    /\ ultimo' = [op |-> "mostrar_inspecciones", salida |-> mostrar_inspecciones(resultados)]
    /\ UNCHANGED <<chocolate, sensores, resultados, exitos>>

Next ==
    \/ \E proceso \in Procesos, sensor \in Sensores : LlamarRegistrarSensor(proceso, sensor)
    \/ \E d \in TipoDefecto : LlamarAgregarDefecto(d)
    \/ LlamarEvaluarCalidad
    \/ \E proceso \in ProcesosPedidos : LlamarInspeccion(proceso)
    \/ LlamarGenerarReporte
    \/ LlamarMostrarInspecciones

Spec == Init /\ [][Next]_vars

\* The Chocolate object alone: any sequence of agregar_defecto and
\* evaluar_calidad calls, so that every defect set is reached
NextChocolate ==
    \/ \E d \in TipoDefecto : AgregarDirecto(d)
    \/ LlamarEvaluarCalidad

SpecChocolate == Init /\ [][NextChocolate]_vars

---------------------------------------------------------------------------
(* The stated rules, as sets of defect kinds *)

CriteriosMoldeado == {"BURBUJAS", "ROTURA", "FORMA_INCORRECTA"}

CriteriosEmpaque == {"ROTURA", "EMPAQUE_DANADO", "FALTANTE"}

Regla(clase, D) ==
    CASE clase = "ChocolateMoldeado" ->
             IF D \cap CriteriosMoldeado # {} THEN "RECHAZADO" ELSE "APROBADO"
      [] clase = "ChocolateEmpaque" ->
             IF D \cap CriteriosEmpaque # {} THEN "RECHAZADO" ELSE "APROBADO"
      [] OTHER ->
             IF D # {} THEN "RECHAZADO" ELSE "APROBADO"

SinRepetidos(s) == \A j, k \in 1..Len(s) : s[j] = s[k] => j = k

\* the step just taken ran evaluar_calidad: directly, or inside an inspection
\* that returned
Evaluo(u) ==
    \/ u.op = "evaluar_calidad"
    \/ u.op = "inspeccionar_chocolate" /\ u.ret \in EstadoCalidad

---------------------------------------------------------------------------
(* C1: whatever defects D a chocolate holds, evaluar_calidad on a          *)
(* ChocolateMoldeado returns and stores RECHAZADO iff D holds one of       *)
(* BURBUJAS, ROTURA, FORMA_INCORRECTA and APROBADO otherwise; on a         *)
(* ChocolateEmpaque it returns and stores RECHAZADO iff D holds one of     *)
(* ROTURA, EMPAQUE_DANADO, FALTANTE and APROBADO otherwise.                *)
C1_EvaluarSegunCriterios ==
    ultimo.op = "evaluar_calidad" =>
        LET D == Rango(chocolate.defectos)
        IN  /\ chocolate.estado = ultimo.ret
            /\ chocolate.clase = "ChocolateMoldeado" =>
                  /\ ultimo.ret = "RECHAZADO" <=> D \cap CriteriosMoldeado # {}
                  /\ ultimo.ret = "APROBADO" <=> D \cap CriteriosMoldeado = {}
            /\ chocolate.clase = "ChocolateEmpaque" =>
                  /\ ultimo.ret = "RECHAZADO" <=> D \cap CriteriosEmpaque # {}
                  /\ ultimo.ret = "APROBADO" <=> D \cap CriteriosEmpaque = {}

\* a moulded chocolate holding only MANCHAS has been evaluated and approved
C1_Testigo ==
    /\ ultimo.op = "evaluar_calidad"
    /\ chocolate.clase = "ChocolateMoldeado"
    /\ chocolate.defectos = <<"MANCHAS">>
    /\ ultimo.ret = "APROBADO"
    /\ chocolate.estado = "APROBADO"

---------------------------------------------------------------------------
(* C5 as stated: in every reachable state a status other than PENDIENTE    *)
(* equals the rule of the chocolate's class applied to its current defects *)
C5_EstadoSegunDefectosActuales ==
    chocolate.estado # "PENDIENTE" =>
        chocolate.estado = Regla(chocolate.clase, Rango(chocolate.defectos))

(* C5 amended: only evaluar_calidad (called directly or by a returning     *)
(* inspection) changes the status; right after it the status is the value  *)
(* returned and equals the rule of the class applied to the defects held   *)
(* at that moment; every other call, agregar_defecto included, leaves the  *)
(* status as it was.                                                       *)
C5_EstadoSoloPorEvaluar ==
    [][ /\ Evaluo(ultimo') =>
              /\ chocolate'.estado = Regla(chocolate'.clase, Rango(chocolate'.defectos))
              /\ ultimo'.ret = chocolate'.estado
        /\ ~Evaluo(ultimo') => chocolate'.estado = chocolate.estado ]_vars

\* agregar_defecto has added ROTURA to an approved moulded chocolate, whose
\* status is still APROBADO
C5_Testigo ==
    /\ ultimo.op = "agregar_defecto"
    /\ ultimo.defecto = "ROTURA"
    /\ chocolate.clase = "ChocolateMoldeado"
    /\ "ROTURA" \in Rango(chocolate.defectos)
    /\ chocolate.estado = "APROBADO"

---------------------------------------------------------------------------
(* C6: the defects of a chocolate never hold a kind twice, whatever        *)
(* agregar_defecto calls and inspections (whose sensor may report a kind   *)
(* twice) are made; agregar_defecto of a kind already present changes      *)
(* nothing, and of a new kind appends it.                                  *)
C6_AgregarDefectoIdempotente ==
    [][ /\ SinRepetidos(chocolate'.defectos)
        /\ ultimo'.op = "agregar_defecto" =>
              IF ultimo'.defecto \in Rango(chocolate.defectos)
              THEN chocolate' = chocolate
              ELSE chocolate' = [chocolate EXCEPT !.defectos =
                                     Append(chocolate.defectos, ultimo'.defecto)] ]_vars

\* an inspection whose sensor reported the same kind twice has left the
\* chocolate with that kind once
C6_Testigo ==
    /\ ultimo.op = "inspeccionar_chocolate"
    /\ ultimo.ret \in EstadoCalidad
    /\ Len(ultimo.detectados.defectos) = 2
    /\ ultimo.detectados.defectos[1] = ultimo.detectados.defectos[2]
    /\ chocolate.defectos = <<ultimo.detectados.defectos[1]>>

---------------------------------------------------------------------------
(* C8: a chocolate starts PENDIENTE; an evaluation (direct or by an        *)
(* inspection) leaves it APROBADO or RECHAZADO; no call brings a chocolate *)
(* that left PENDIENTE back to it; no record of the log carries the status *)
(* pendiente.                                                              *)
C8_PendienteNoVuelve ==
    /\ chocolate.estado = "PENDIENTE"
    /\ [][ /\ chocolate.estado # "PENDIENTE" => chocolate'.estado # "PENDIENTE"
           /\ Evaluo(ultimo') => chocolate'.estado \in {"APROBADO", "RECHAZADO"}
           /\ \A k \in 1..Len(resultados') :
                 resultados'[k].resultado # ValorEstado("PENDIENTE") ]_vars

\* an approved chocolate, already logged, has received a defect directly and
\* has been evaluated again
C8_Testigo ==
    /\ ultimo.op = "evaluar_calidad"
    /\ chocolate.estado = "RECHAZADO"
    /\ Len(resultados) >= 1
    /\ resultados[Len(resultados)].resultado = "aprobado"

---------------------------------------------------------------------------
(* C10: no call removes a defect from a chocolate (the defects it held     *)
(* stay, in their order), and RECHAZADO is absorbing for the three         *)
(* classes: once the status is RECHAZADO every later evaluation or         *)
(* inspection returns RECHAZADO and the status stays RECHAZADO.            *)
C10_DefectosCrecenRechazadoAbsorbe ==
    [][ /\ Len(chocolate'.defectos) >= Len(chocolate.defectos)
        /\ \A k \in 1..Len(chocolate.defectos) :
              chocolate'.defectos[k] = chocolate.defectos[k]
        /\ chocolate.estado = "RECHAZADO" =>
              /\ chocolate'.estado = "RECHAZADO"
              /\ Evaluo(ultimo') => ultimo'.ret = "RECHAZADO" ]_vars

\* a rejected chocolate has been inspected again, the sensor found nothing,
\* and the inspection returned RECHAZADO
C10_Testigo ==
    /\ ultimo.op = "inspeccionar_chocolate"
    /\ ultimo.ret = "RECHAZADO"
    /\ ultimo.detectados.defectos = <<>>
    /\ Len(resultados) = 2
    /\ resultados[1].resultado = "rechazado"
    /\ chocolate.estado = "RECHAZADO"

---------------------------------------------------------------------------
(* C2: an inspection for a process name without a registered sensor        *)
(* raises ValueError before anything happens: detectar_defectos is not     *)
(* called, and the chocolate (defects and status), the sensors and the log *)
(* are as they were.                                                       *)
C2_ProcesoSinSensor ==
    [][ (ultimo'.op = "inspeccionar_chocolate" /\ ultimo'.proceso \notin DOMAIN sensores) =>
            /\ ultimo'.ret = "ValueError"
            /\ ~ultimo'.detecto
            /\ UNCHANGED <<chocolate, sensores, resultados, exitos>> ]_vars

\* an inspection has raised ValueError in a system that has a sensor
\* registered, a record in its log and a chocolate with defects
C2_Testigo ==
    /\ ultimo.op = "inspeccionar_chocolate"
    /\ ultimo.ret = "ValueError"
    /\ ultimo.proceso \notin DOMAIN sensores
    /\ DOMAIN sensores # {}
    /\ Len(resultados) >= 1
    /\ chocolate.defectos # <<>>

---------------------------------------------------------------------------
\* the record an inspection that returned must have appended
RegistroDe(u, choc) ==
    [lote_id        |-> choc.lote_id,
     proceso        |-> u.proceso,
     defectos       |-> [k \in 1..Len(u.detectados.defectos) |->
                            ValorDefecto(u.detectados.defectos[k])],
     resultado      |-> ValorEstado(u.ret),
     tipo_chocolate |-> choc.clase]

(* C3: the log is append-only and in call order: it holds as many records  *)
(* as inspections have returned; an inspection that returns appends its    *)
(* record at the end; no other call (failed inspection, registrar_sensor,  *)
(* report, history, direct calls on the chocolate) changes the log; no     *)
(* call changes a record already there; mostrar_inspecciones numbers the   *)
(* records 1..N in that order.                                             *)
C3_LogSoloCrece ==
    [][ /\ Len(resultados') = exitos'
        /\ Len(resultados') >= Len(resultados)
        /\ \A k \in 1..Len(resultados) : resultados'[k] = resultados[k]
        /\ IF ultimo'.op = "inspeccionar_chocolate" /\ ultimo'.ret \in EstadoCalidad
           THEN /\ exitos' = exitos + 1
                /\ resultados' = Append(resultados, RegistroDe(ultimo', chocolate'))
           ELSE /\ exitos' = exitos
                /\ resultados' = resultados
        /\ (ultimo'.op = "mostrar_inspecciones" /\ resultados' # <<>>) =>
              /\ ultimo'.salida.datos
              /\ Len(ultimo'.salida.entradas) = exitos'
              /\ \A k \in 1..Len(ultimo'.salida.entradas) :
                    /\ ultimo'.salida.entradas[k].num = k
                    /\ ultimo'.salida.entradas[k].lote = resultados'[k].lote_id
                    /\ ultimo'.salida.entradas[k].proceso = resultados'[k].proceso
                    /\ ultimo'.salida.entradas[k].resultado = resultados'[k].resultado
                    /\ ultimo'.salida.entradas[k].defectos =
                          IF resultados'[k].defectos = <<>>
                          THEN <<>> ELSE <<resultados'[k].defectos>> ]_vars

\* the history has been listed after two inspections that left different records
C3_Testigo ==
    /\ ultimo.op = "mostrar_inspecciones"
    /\ exitos = 2
    /\ Len(ultimo.salida.entradas) = 2
    /\ resultados[1] # resultados[2]

---------------------------------------------------------------------------
(* C4: the record an inspection appends holds exactly the list the sensor  *)
(* returned in that call (with the kinds the chocolate already had and     *)
(* with repetitions, without the kinds found only before) and the status   *)
(* the evaluation of that call returned.                                   *)
C4_RegistroDeLaLlamada ==
    (ultimo.op = "inspeccionar_chocolate" /\ ultimo.ret \in EstadoCalidad) =>
        /\ resultados # <<>>
        /\ LET reg == resultados[Len(resultados)]
               det == ultimo.detectados.defectos
           IN  /\ Len(reg.defectos) = Len(det)
               /\ \A k \in 1..Len(det) : reg.defectos[k] = ValorDefecto(det[k])
               /\ reg.resultado = ValorEstado(ultimo.ret)
               /\ chocolate.estado = ultimo.ret

\* a moulded chocolate inspected twice, the sensor returning [MANCHAS] and
\* then []: both records say aprobado, the second holds no defect, and the
\* chocolate holds MANCHAS
C4_Testigo ==
    /\ ultimo.op = "inspeccionar_chocolate"
    /\ ultimo.ret = "APROBADO"
    /\ chocolate.clase = "ChocolateMoldeado"
    /\ Len(resultados) = 2
    /\ resultados[1].defectos = <<"manchas">>
    /\ resultados[1].resultado = "aprobado"
    /\ resultados[2].defectos = <<>>
    /\ resultados[2].resultado = "aprobado"
    /\ chocolate.defectos = <<"MANCHAS">>

---------------------------------------------------------------------------
\* the places of the log where the defect value v is recorded
Apariciones(regs, v) ==
    {p \in UNION {{<<k, j>> : j \in 1..Len(regs[k].defectos)} : k \in 1..Len(regs)} :
        regs[p[1]].defectos[p[2]] = v}

\* the count a report's detail gives for the defect value v (0 when not listed)
CuentaEnDetalle(detalle, v) ==
    IF \E k \in 1..Len(detalle) : detalle[k].defecto = v
    THEN detalle[CHOOSE k \in 1..Len(detalle) : detalle[k].defecto = v].count
    ELSE 0

(* C7: the figures of generar_reporte are functions of the log alone:      *)
(* total is the number of records, approved the number of records whose    *)
(* result is aprobado, rejected the rest, and the count of each defect     *)
(* kind is the number of its occurrences over the defect lists of all      *)
(* records (each kind listed once, only when it occurs); on an empty log   *)
(* the report is the fixed no-data message.                                *)
C7_ReporteDelLog ==
    ultimo.op = "generar_reporte" =>
        LET s == ultimo.salida
        IN  IF resultados = <<>>
            THEN ~s.datos /\ s.texto = "No hay datos de inspeccion para generar reporte."
            ELSE /\ s.datos
                 /\ s.total = Len(resultados)
                 /\ s.aprobados =
                       Cardinality({k \in 1..Len(resultados) :
                                       resultados[k].resultado = "aprobado"})
                 /\ s.rechazados = s.total - s.aprobados
                 /\ s.aprobados + s.rechazados = s.total
                 /\ \A j, k \in 1..Len(s.detalle) :
                       s.detalle[j].defecto = s.detalle[k].defecto => j = k
                 /\ \A k \in 1..Len(s.detalle) : s.detalle[k].count >= 1
                 /\ \A d \in TipoDefecto :
                       CuentaEnDetalle(s.detalle, ValorDefecto(d)) =
                          Cardinality(Apariciones(resultados, ValorDefecto(d)))

\* a report made after two inspections that both found ROTURA on the same
\* chocolate: the chocolate holds ROTURA once and the report counts it twice
C7_Testigo ==
    /\ ultimo.op = "generar_reporte"
    /\ Len(resultados) = 2
    /\ resultados[1].defectos = <<"rotura">>
    /\ resultados[2].defectos = <<"rotura">>
    /\ chocolate.defectos = <<"ROTURA">>
    /\ ultimo.salida.detalle = <<[defecto |-> "rotura", count |-> 2]>>
    /\ ultimo.salida.rechazados = 2

---------------------------------------------------------------------------
(* C9: when the registered sensor raises, the inspection raises the same   *)
(* error and changes nothing: no defect added, status not evaluated again, *)
(* no record appended.  When the sensor returns, the defects it returned   *)
(* are all on the chocolate before the evaluation (the status is the rule  *)
(* applied to the defects held after the call), and the record carries the *)
(* status of that evaluation.                                              *)
C9_SensorQueFalla ==
    [][ (ultimo'.op = "inspeccionar_chocolate" /\ ultimo'.detecto) =>
            IF ultimo'.detectados.lanza
            THEN /\ ultimo'.ret = "SensorError"
                 /\ UNCHANGED <<chocolate, sensores, resultados, exitos>>
            ELSE /\ ultimo'.ret \in EstadoCalidad
                 /\ Rango(chocolate'.defectos) =
                       Rango(chocolate.defectos) \cup Rango(ultimo'.detectados.defectos)
                 /\ chocolate'.estado =
                       Regla(chocolate'.clase, Rango(chocolate'.defectos))
                 /\ Len(resultados') = Len(resultados) + 1
                 /\ resultados'[Len(resultados')].resultado =
                       ValorEstado(chocolate'.estado) ]_vars

\* the sensor has raised on a chocolate that holds ROTURA, added directly
\* after the inspection that approved it: the status is still APROBADO and
\* the log still holds one record
C9_Testigo ==
    /\ ultimo.op = "inspeccionar_chocolate"
    /\ ultimo.ret = "SensorError"
    /\ chocolate.clase = "ChocolateMoldeado"
    /\ chocolate.defectos = <<"ROTURA">>
    /\ chocolate.estado = "APROBADO"
    /\ Len(resultados) = 1

=============================================================================
